---- MODULE Spec2Model ----
(***************************************************************************)
(* MediaGrab: the download-and-transcode pipeline of YouTubeDownloader.    *)
(*                                                                         *)
(* One fetch (download_video / download_playlist) runs                     *)
(* _download_from_youtube: it creates the destination directory, builds    *)
(* ydl_opts and hands the URL to the download tool.  The tool resolves the *)
(* URL to a batch of items and reports each item through the registered    *)
(* progress hook; the hook transcodes a finished item with ffmpeg and      *)
(* removes the original.                                                   *)
(*                                                                         *)
(* Strings are sequences of tokens.  A token is "." or "/" or a piece of   *)
(* text that holds neither, so str.rsplit('.', 1) and os.path.join act on  *)
(* token sequences exactly as they act on the characters.                  *)
(***************************************************************************)
EXTENDS Naturals, Sequences, FiniteSets

VARIABLES
    pc,          \* "idle" | "download" (inside ydl.download) | "done"
    request,     \* arguments of _download_from_youtube, or NoRequest
    ydl_opts,    \* the options dictionary, or NoOpts
    dirs,        \* directories that exist
    fs,          \* files that exist
    log,         \* messages handed to the Logger, in order
    total,       \* number of items the tool resolved the URL to
    items,       \* items the tool has started, in order
    hookCalls,   \* every call of _progress_hook, in order
    ffmpegCalls, \* every subprocess.run of the transcoder, in order
    removed,     \* files deleted by os.remove
    created,     \* files written by the transcoder
    toolCalls,   \* number of calls of ydl.download
    urlList,     \* the list handed to ydl.download, or <<>> before the call
    running,     \* transcoder processes started and not yet exited
    outcome,     \* how ydl.download ended
    result       \* how the fetch ended: "none" | "returned" | "raised"

\* State of the installer (Install.py and DependencyChecker)
VARIABLES
    ipc,         \* where the installer is
    caller,      \* who runs the dependency check: "main" | "direct" | "none"
    host,        \* the machine the installer runs on, or "unknown"
    checker,     \* the DependencyChecker instance, or NoChecker
    stdout,      \* lines printed, in order
    ilog,        \* messages handed to the checker's Logger, in order
    ops,         \* checks and installations carried out, in order
    exitStatus   \* exit status of the Install.py process, or "none"

dvars == <<pc, request, ydl_opts, dirs, fs, log, total, items, hookCalls,
           ffmpegCalls, removed, created, toolCalls, urlList, running, outcome,
           result>>

ivars == <<ipc, caller, host, checker, stdout, ilog, ops, exitStatus>>

vars == <<dvars, ivars>>

----------------------------------------------------------------------------
(* Bounds of the model *)

MaxItems == 2

----------------------------------------------------------------------------
(* Inputs *)

NoRequest == [kind |-> "none"]
NoOpts == [kind |-> "none"]

\* What the URL addresses: one video, a playlist, or a video inside a playlist.
Urls == {<<"watch?v=abc">>, <<"playlist?list=L">>, <<"watch?v=abc&list=L">>}

Paths == {<<".", "/", "out">>}

\* The title and the container of an item, as the tool finds them.
Media ==
    {[title |-> <<"Title">>, ext |-> "webm"],
     [title |-> <<"Title", ".", "v2">>, ext |-> "webm"],
     [title |-> <<"Title">>, ext |-> "mp3"]}

IndexStr(i) == CASE i = 1 -> "1" [] i = 2 -> "2" [] i = 3 -> "3" [] OTHER -> "n"

----------------------------------------------------------------------------
(* Exceptions: the classes the code can see, and Python's subclass relation *)

ExceptionClasses ==
    {"CalledProcessError", "FileNotFoundError", "PermissionError",
     "FileExistsError", "DownloadError"}

\* The direct base class of each class.
Base(exc) ==
    CASE exc = "CalledProcessError" -> "SubprocessError"
      [] exc = "SubprocessError" -> "Exception"
      [] exc = "FileNotFoundError" -> "OSError"
      [] exc = "PermissionError" -> "OSError"
      [] exc = "FileExistsError" -> "OSError"
      [] exc = "OSError" -> "Exception"
      [] exc = "DownloadError" -> "Exception"
      [] exc = "TypeError" -> "Exception"
      [] exc = "ImportError" -> "Exception"
      [] OTHER -> "BaseException"

RECURSIVE IsSubclass(_, _)
IsSubclass(exc, cls) ==
    IF exc = cls THEN TRUE
    ELSE IF exc = "BaseException" THEN FALSE
    ELSE IsSubclass(Base(exc), cls)

\* except subprocess.CalledProcessError   (the hook's only handler)
HookCatches(exc) == IsSubclass(exc, "CalledProcessError")

\* except Exception   (the fetch's handler)
FetchCatches_DownloadErrorOnly(exc) == IsSubclass(exc, "DownloadError")
FetchCatches(exc) == IsSubclass(exc, "Exception")

----------------------------------------------------------------------------
(* Strings *)

\* os.path.join(a, b) for a relative b
OsPathJoin(a, b) ==
    IF a = <<>> THEN b
    ELSE IF a[Len(a)] = "/" THEN a \o b
    ELSE a \o <<"/">> \o b

\* The index of the last "." of s, or 0.
RECURSIVE LastDot(_)
LastDot(s) ==
    IF s = <<>> THEN 0
    ELSE IF s[Len(s)] = "." THEN Len(s)
    ELSE LastDot(SubSeq(s, 1, Len(s) - 1))

\* The index of the first "." of s, or 0.
RECURSIVE FirstDotFrom(_, _)
FirstDotFrom(s, i) ==
    IF i > Len(s) THEN 0
    ELSE IF s[i] = "." THEN i
    ELSE FirstDotFrom(s, i + 1)

\* filename.rsplit('.', 1)[0]
RSplitHead_AtFirstDot(s) ==
    IF FirstDotFrom(s, 1) = 0 THEN s ELSE SubSeq(s, 1, FirstDotFrom(s, 1) - 1)
RSplitHead(s) ==
    IF LastDot(s) = 0 THEN s ELSE SubSeq(s, 1, LastDot(s) - 1)

\* output_filename = filename.rsplit('.', 1)[0] + '.mp3'
OutputFilename(filename) == RSplitHead(filename) \o <<".", "mp3">>

\* The argument list handed to subprocess.run.
FfmpegCommand(filename, output_filename) ==
    << <<"ffmpeg">>, <<"-i">>, filename, <<"-vn">>, <<"-ar">>, <<"44100">>,
       <<"-ac">>, <<"2">>, <<"-b:a">>, <<"320k">>, <<"-f">>, <<"mp3">>,
       output_filename >>

----------------------------------------------------------------------------
(* The options dictionary built by _download_from_youtube *)

\* '%(playlist_title)s/%(playlist_index)s - %(title)s.%(ext)s'
Template ==
    <<"%(playlist_title)s", "/", "%(playlist_index)s", " - ", "%(title)s",
      ".", "%(ext)s">>

OutTmpl(path) == OsPathJoin(path, Template)

FormatSelector_Swapped(keep_audio_only) ==
    IF keep_audio_only THEN "bestvideo+bestaudio/best" ELSE "bestaudio/best"
FormatSelector(keep_audio_only) ==
    IF keep_audio_only THEN "bestaudio/best" ELSE "bestvideo+bestaudio/best"

SkipUnavailableFragments == TRUE

IgnoreErrors_Off == FALSE
IgnoreErrors == TRUE

\* lambda d: self._progress_hook(d, convert_to_mp3=keep_audio_only)
ConvertToMp3_Always(keep_audio_only) == TRUE
ConvertToMp3(keep_audio_only) == keep_audio_only

\* 'noplaylist': True if isPlaylist else False
NoPlaylist(isPlaylist) == IF isPlaylist THEN TRUE ELSE FALSE

YdlOpts(path, keep_audio_only, isPlaylist) ==
    [kind |-> "opts",
     outtmpl |-> OutTmpl(path),
     format |-> FormatSelector(keep_audio_only),
     skip_unavailable_fragments |-> SkipUnavailableFragments,
     ignoreerrors |-> IgnoreErrors,
     convert_to_mp3 |-> ConvertToMp3(keep_audio_only),
     noplaylist |-> NoPlaylist(isPlaylist)]

----------------------------------------------------------------------------
(* The download tool's reading of the options *)

\* The value the tool substitutes for one template field.
Subst(tok, info) ==
    CASE tok = "%(playlist_title)s" -> <<info.playlist_title>>
      [] tok = "%(playlist_index)s" -> <<info.playlist_index>>
      [] tok = "%(title)s" -> info.title
      [] tok = "%(ext)s" -> <<info.ext>>
      [] OTHER -> <<tok>>

\* The file name the tool writes an item to: outtmpl with its fields filled in.
RECURSIVE Render(_, _)
Render(tmpl, info) ==
    IF tmpl = <<>> THEN <<>>
    ELSE Subst(Head(tmpl), info) \o Render(Tail(tmpl), info)

\* Whether the tool treats the URL as a playlist: a URL that names both a video
\* and a playlist is a single video when noplaylist is set.
IsBatchPlaylist(url, noplaylist) ==
    CASE url = <<"watch?v=abc">> -> FALSE
      [] url = <<"playlist?list=L">> -> TRUE
      [] OTHER -> ~noplaylist

\* The fields of item k; an item outside a playlist has no playlist fields and
\* the tool writes NA for them.
ItemInfo(k, title, ext, inPlaylist) ==
    [title |-> title, ext |-> ext,
     playlist_title |-> IF inPlaylist THEN "PL" ELSE "NA",
     playlist_index |-> IF inPlaylist THEN IndexStr(k) ELSE "NA"]

----------------------------------------------------------------------------
(* The collaborators called by the hook *)

Entry(level, text, arg) == [level |-> level, text |-> text, arg |-> arg]

\* How a run of the transcoder can end, and how a deletion can end.
TranscodeOutcomes == {"zero", "nonzero", "missing"}
RemoveOutcomes == {"ok", "fail"}

\* check=True
RunCheck_Off == FALSE
RunCheck == TRUE

\* subprocess.run(command, check=check): the executable may be missing; a run
\* that exits zero has written its output file (the last argument), a run that
\* exits non-zero has written nothing and raises only under check.
SubprocessRun(command, check, tr, files) ==
    CASE tr = "missing" ->
            [exc |-> "FileNotFoundError", rc |-> "missing", files |-> files,
             created |-> {}]
      [] tr = "nonzero" ->
            [exc |-> IF check THEN "CalledProcessError" ELSE "none",
             rc |-> "nonzero", files |-> files, created |-> {}]
      [] OTHER ->
            [exc |-> "none", rc |-> "zero",
             files |-> files \cup {command[Len(command)]},
             created |-> {command[Len(command)]}]

\* os.remove(filename)
OsRemove(filename, rm, files) ==
    IF filename \notin files
    THEN [exc |-> "FileNotFoundError", files |-> files, removed |-> {}]
    ELSE IF rm = "fail"
    THEN [exc |-> "PermissionError", files |-> files, removed |-> {}]
    ELSE [exc |-> "none", files |-> files \ {filename}, removed |-> {filename}]

----------------------------------------------------------------------------
(* _progress_hook *)

\* A try block that runs the transcoder a second time when the first run fails.
HookTry_Retry(filename, output_filename, tr, rm, files) ==
    LET command == FfmpegCommand(filename, output_filename)
        ran == SubprocessRun(command, RunCheck, tr, files)
    IN  [exc |-> ran.exc, rc |-> ran.rc,
         cmds |-> IF ran.exc = "none" THEN <<command>> ELSE <<command, command>>,
         log |-> <<>>, files |-> ran.files, created |-> ran.created,
         removed |-> {}]

\* The body of the try block: run the transcoder, then remove the original.
HookTry(filename, output_filename, tr, rm, files) ==
    LET command == FfmpegCommand(filename, output_filename)
        ran == SubprocessRun(command, RunCheck, tr, files)
        del == OsRemove(filename, rm, ran.files)
    IN  IF ran.exc # "none"
        THEN [exc |-> ran.exc, rc |-> ran.rc, cmds |-> <<command>>, log |-> <<>>,
              files |-> ran.files, created |-> ran.created, removed |-> {}]
        ELSE IF del.exc # "none"
        THEN [exc |-> del.exc, rc |-> ran.rc, cmds |-> <<command>>,
              log |-> <<Entry("info", "Converted to MP3", filename)>>,
              files |-> del.files, created |-> ran.created, removed |-> {}]
        ELSE [exc |-> "none", rc |-> ran.rc, cmds |-> <<command>>,
              log |-> <<Entry("info", "Converted to MP3", filename),
                        Entry("debug", "Deleted original file", filename)>>,
              files |-> del.files, created |-> ran.created,
              removed |-> del.removed]

\* if d['status'] == 'finished'
IsFinished_Always(d) == TRUE
IsFinished(d) == d.status = "finished"

\* _progress_hook(d, convert_to_mp3) run on the files that exist; tr and rm are
\* how the transcoder and the deletion end if they are reached.  raised is the
\* exception that leaves the hook, or "none"; pre are the messages logged
\* before the transcoder is started.
ProgressHook(d, convert_to_mp3, tr, rm, files) ==
    IF ~IsFinished(d)
    THEN [raised |-> "none", rc |-> "none", cmds |-> <<>>, log |-> <<>>,
          pre |-> <<>>,
          files |-> files, created |-> {}, removed |-> {}]
    ELSE IF ~convert_to_mp3
    THEN [raised |-> "none", rc |-> "none", cmds |-> <<>>,
          log |-> <<Entry("info", "Downloaded file", d.filename)>>,
          pre |-> <<Entry("info", "Downloaded file", d.filename)>>,
          files |-> files, created |-> {}, removed |-> {}]
    ELSE LET t == HookTry(d.filename, OutputFilename(d.filename), tr, rm, files)
             head == <<Entry("info", "Downloaded file", d.filename),
                       Entry("debug", "Converting to MP3", d.filename)>>
         IN  [raised |-> IF t.exc # "none" /\ ~HookCatches(t.exc)
                         THEN t.exc ELSE "none",
              rc |-> t.rc, cmds |-> t.cmds,
              log |-> IF t.exc # "none" /\ HookCatches(t.exc)
                      THEN head \o t.log \o
                           <<Entry("error", "Error converting to MP3", d.filename)>>
                      ELSE head \o t.log,
              pre |-> head,
              files |-> t.files, created |-> t.created, removed |-> t.removed]

----------------------------------------------------------------------------
(* State *)

NoChecker == [kind |-> "none"]

\* The installer is not run.
InstallerOff ==
    /\ ipc = "off"
    /\ caller = "none"
    /\ host = "unknown"
    /\ checker = NoChecker
    /\ stdout = <<>>
    /\ ilog = <<>>
    /\ ops = <<>>
    /\ exitStatus = "none"

\* After YouTubeDownloader(logger): nothing requested yet.  The destination
\* directory may or may not exist already.
Init ==
    /\ pc = "idle"
    /\ request = NoRequest
    /\ ydl_opts = NoOpts
    /\ dirs \in SUBSET Paths
    /\ fs = {}
    /\ log = <<Entry("info", "YouTubeDownloader initialized.", <<>>)>>
    /\ total = 0
    /\ items = <<>>
    /\ hookCalls = <<>>
    /\ ffmpegCalls = <<>>
    /\ removed = {}
    /\ created = {}
    /\ toolCalls = 0
    /\ urlList = <<>>
    /\ running = {}
    /\ outcome = "none"
    /\ result = "none"
    /\ InstallerOff

\* The item the tool is working on, if any.
Current == items[Len(items)]
Busy == items # <<>> /\ Current.status = "downloading"

\* An exception exc reaches the try block of _download_from_youtube(url, ...)
\* while the log holds lg: the except clause logs it and the function returns, or the
\* exception leaves the function.
FetchEnds(url, exc, lg) ==
    /\ pc' = "done"
    /\ log' = IF FetchCatches(exc)
              THEN lg \o <<Entry("error", "Error downloading playlist", url)>>
              ELSE lg
    /\ result' = IF FetchCatches(exc) THEN "returned" ELSE "raised"

----------------------------------------------------------------------------
(* _download_from_youtube, up to the call of ydl.download *)

\* exist_ok=True
ExistOk_Off == FALSE
ExistOk == TRUE

\* os.makedirs(path, exist_ok=exist_ok) on the directories ds; mk is how the
\* creation ends when the directory has to be created.
MakeDirs(path, exist_ok, mk, ds) ==
    IF path \in ds
    THEN [exc |-> IF exist_ok THEN "none" ELSE "FileExistsError", dirs |-> ds]
    ELSE IF mk = "ok"
    THEN [exc |-> "none", dirs |-> ds \cup {path}]
    ELSE [exc |-> "PermissionError", dirs |-> ds]

\* mk is how os.makedirs ends when it has to create the directory; n is the
\* number of items of the playlist the URL names.
DownloadFromYoutube(url, path, keep_audio_only, isPlaylist, mk, n) ==
    LET lg == log \o <<Entry("debug", "Starting download for playlist", url)>>
        made == MakeDirs(path, ExistOk, mk, dirs)
        opts == YdlOpts(path, keep_audio_only, isPlaylist)
    IN  /\ pc = "idle"
        /\ request' = [kind |-> "request", url |-> url, path |-> path,
                       keep_audio_only |-> keep_audio_only,
                       isPlaylist |-> isPlaylist]
        /\ dirs' = made.dirs
        /\ IF made.exc = "none"
           THEN /\ ydl_opts' = opts
                /\ toolCalls' = toolCalls + 1
                /\ urlList' = <<url>>
                /\ total' = IF IsBatchPlaylist(url, opts.noplaylist) THEN n ELSE 1
                /\ outcome' = "running"
                /\ pc' = "download"
                /\ log' = lg
                /\ result' = result
           ELSE /\ FetchEnds(url, made.exc, lg)
                /\ UNCHANGED <<ydl_opts, toolCalls, urlList, total, outcome>>
        /\ UNCHANGED <<fs, items, hookCalls, ffmpegCalls, removed, created,
                       running>>
        /\ UNCHANGED ivars

download_video(url, path, keep_audio_only) ==
    \E mk \in {"ok", "fail"}, n \in 1..MaxItems :
        DownloadFromYoutube(url, path, keep_audio_only, FALSE, mk, n)

download_playlist(url, path, keep_audio_only) ==
    \E mk \in {"ok", "fail"}, n \in 1..MaxItems :
        DownloadFromYoutube(url, path, keep_audio_only, TRUE, mk, n)

----------------------------------------------------------------------------
(* ydl.download([url]): the tool works through the batch item by item *)

\* subprocess.run returns only when the process has exited: while a transcoder
\* runs, the hook has not returned and the tool, which called it, does nothing.
RunWaits_Off == FALSE
RunWaits == TRUE

TranscoderIdle == RunWaits => running = {}

\* The tool takes up the next item of the batch.
ToolStartItem(title, ext) ==
    LET k == Len(items) + 1
        info == ItemInfo(k, title, ext,
                         IsBatchPlaylist(request.url, ydl_opts.noplaylist))
    IN  /\ pc = "download"
        /\ TranscoderIdle
        /\ ~Busy
        /\ Len(items) < total
        /\ items' = Append(items, [info |-> info,
                                   filename |-> Render(ydl_opts.outtmpl, info),
                                   status |-> "downloading",
                                   progressed |-> FALSE])
        /\ UNCHANGED <<pc, request, ydl_opts, dirs, fs, log, total, hookCalls,
                       ffmpegCalls, removed, created, toolCalls, urlList,
                       running, outcome, result>>
        /\ UNCHANGED ivars

\* The event the tool hands to the hook for item k.
Event(k, status) == [status |-> status, filename |-> items[k].filename]

\* The hook, called by the tool with event d of item k while files exist, runs
\* to its end.  An exception that leaves the hook is an error of the item:
\* under ignoreerrors the tool reports it and goes on to the next item,
\* otherwise it leaves ydl.download.  after is the item's status when the hook
\* returns.  started says that the hook was left waiting for the transcoder
\* earlier, its first messages and the invocation being on record already.
CallHook(k, d, files, tr, rm, after, started) ==
    LET h == ProgressHook(d, ydl_opts.convert_to_mp3, tr, rm, files)
        call == [item |-> k, status |-> d.status, filename |-> d.filename,
                 rc |-> h.rc, cmds |-> h.cmds, raised |-> h.raised]
        lg == IF started
              THEN log \o SubSeq(h.log, Len(h.pre) + 1, Len(h.log))
              ELSE log \o h.log
    IN  /\ hookCalls' = Append(hookCalls, call)
        /\ ffmpegCalls' = IF started THEN ffmpegCalls ELSE ffmpegCalls \o h.cmds
        /\ fs' = h.files
        /\ created' = created \cup h.created
        /\ removed' = removed \cup h.removed
        /\ IF h.raised = "none"
           THEN /\ items' = [items EXCEPT ![k].status = after,
                                          ![k].progressed = TRUE]
                /\ log' = lg
                /\ UNCHANGED <<pc, outcome, result>>
           ELSE IF ydl_opts.ignoreerrors
           THEN /\ items' = [items EXCEPT ![k].status = "error"]
                /\ log' = lg
                /\ UNCHANGED <<pc, outcome, result>>
           ELSE /\ items' = [items EXCEPT ![k].status = "error"]
                /\ outcome' = "raised_item"
                /\ FetchEnds(request.url, h.raised, lg)
        /\ UNCHANGED <<request, ydl_opts, dirs, total, toolCalls, urlList>>
        /\ UNCHANGED ivars

\* An intermediate event of the current item.
ToolProgress ==
    /\ pc = "download"
    /\ TranscoderIdle
    /\ Busy
    /\ ~Current.progressed
    /\ CallHook(Len(items), Event(Len(items), "downloading"), fs, "zero", "ok",
                "downloading", FALSE)
    /\ UNCHANGED running

\* The current item is written to its file and reported as finished.  A hook
\* that goes on to transcode logs its first messages, starts the transcoder
\* and waits for it; any other hook runs to its end.
ToolItemFinished ==
    LET k == Len(items)
        d == Event(k, "finished")
        files == fs \cup {Current.filename}
        h == ProgressHook(d, ydl_opts.convert_to_mp3, "zero", "ok", files)
    IN  /\ pc = "download"
        /\ TranscoderIdle
        /\ Busy
        /\ IF h.cmds # <<>>
           THEN /\ fs' = files
                /\ log' = log \o h.pre
                /\ ffmpegCalls' = ffmpegCalls \o h.cmds
                /\ running' = running \cup {[item |-> k, command |-> h.cmds[1]]}
                /\ items' = [items EXCEPT ![k].status = "transcoding"]
                /\ UNCHANGED <<pc, request, ydl_opts, dirs, total, hookCalls,
                               removed, created, toolCalls, urlList, outcome,
                               result>>
                /\ UNCHANGED ivars
           ELSE /\ CallHook(k, d, files, "zero", "ok", "finished", FALSE)
                /\ UNCHANGED running

\* A transcoder exits, or turns out not to have started: subprocess.run ends
\* as tr says and the hook that waited for it runs to its end.
TranscoderExits(tr, rm) ==
    \E p \in running :
        /\ running' = running \ {p}
        /\ CallHook(p.item, Event(p.item, "finished"), fs, tr, rm, "finished",
                    TRUE)

\* The download of the current item fails.
ToolItemError ==
    /\ pc = "download"
    /\ TranscoderIdle
    /\ Busy
    /\ items' = [items EXCEPT ![Len(items)].status = "error"]
    /\ IF ydl_opts.ignoreerrors
       THEN UNCHANGED <<pc, log, outcome, result>>
       ELSE /\ outcome' = "raised_item"
            /\ FetchEnds(request.url, "DownloadError", log)
    /\ UNCHANGED <<request, ydl_opts, dirs, fs, total, hookCalls, ffmpegCalls,
                   removed, created, toolCalls, urlList, running>>
    /\ UNCHANGED ivars

\* The tool fails as a whole, before the first item or between two items.
ToolRaise ==
    /\ pc = "download"
    /\ TranscoderIdle
    /\ ~Busy
    /\ outcome' = "raised_batch"
    /\ FetchEnds(request.url, "DownloadError", log)
    /\ UNCHANGED <<request, ydl_opts, dirs, fs, total, items, hookCalls,
                   ffmpegCalls, removed, created, toolCalls, urlList, running>>
    /\ UNCHANGED ivars

\* The batch is through: ydl.download returns and so does the fetch.
ToolReturn ==
    /\ pc = "download"
    /\ TranscoderIdle
    /\ ~Busy
    /\ Len(items) = total
    /\ outcome' = "returned"
    /\ pc' = "done"
    /\ result' = "returned"
    /\ UNCHANGED <<request, ydl_opts, dirs, fs, log, total, items, hookCalls,
                   ffmpegCalls, removed, created, toolCalls, urlList, running>>
    /\ UNCHANGED ivars

----------------------------------------------------------------------------

Next ==
    \/ \E url \in Urls, path \in Paths, keep \in BOOLEAN :
           download_video(url, path, keep)
    \/ \E url \in Urls, path \in Paths, keep \in BOOLEAN :
           download_playlist(url, path, keep)
    \/ \E m \in Media : ToolStartItem(m.title, m.ext)
    \/ ToolProgress
    \/ ToolItemFinished
    \/ \E tr \in TranscodeOutcomes, rm \in RemoveOutcomes : TranscoderExits(tr, rm)
    \/ ToolItemError
    \/ ToolRaise
    \/ ToolReturn

Spec == Init /\ [][Next]_vars

----------------------------------------------------------------------------
(* Install.py and DependencyChecker *)

\* platform.system() of the machines considered; "Java" stands for every
\* system that is none of the three the code names.
Systems == {"Linux", "Darwin", "Windows", "Java"}

\* The programs the code looks up or runs by name.
Programs == {"apt", "yum", "pacman", "brew", "choco", "sudo"}

\* A machine: its system, whether the user is root (whoami) or holds
\* administrative rights (net session), whether yt_dlp can be imported, how
\* "ffmpeg --version" ends, the programs on PATH and whether the
\* requirements file exists.
Hosts ==
    [os : Systems, admin : BOOLEAN, yt_dlp : BOOLEAN,
     ffmpeg : {"zero", "nonzero", "missing"},
     which : SUBSET Programs, requirements : BOOLEAN]

InstallOutcomes == {"zero", "nonzero"}

\* str.lower() on the names of the systems.
Lower(name) ==
    CASE name = "Linux" -> "linux"
      [] name = "Darwin" -> "darwin"
      [] name = "Windows" -> "windows"
      [] name = "Java" -> "java"

\* check_permissions(): the verdict and what it prints.
check_permissions(h) ==
    LET current_os == Lower(h.os)
    IN  IF current_os = "linux" \/ current_os = "darwin"
        THEN IF ~h.admin
             THEN [ok |-> FALSE, out |-> <<"Error: This script must be run as root">>]
             ELSE [ok |-> TRUE, out |-> <<>>]
        ELSE IF current_os = "windows"
        THEN IF ~h.admin
             THEN [ok |-> FALSE,
                   out |-> <<"Error: This script must be run with administrative privileges.">>]
             ELSE [ok |-> TRUE, out |-> <<>>]
        ELSE [ok |-> FALSE, out |-> <<"Unsupported OS">>]

\* DependencyChecker.__init__(self, logger, requirements_path=None) called
\* with the keyword arguments args: logger has no default, so a call
\* without it raises TypeError before the body runs.
DependencyCheckerInit(args) ==
    IF "logger" \notin DOMAIN args
    THEN [exc |-> "TypeError", self |-> NoChecker, log |-> <<>>]
    ELSE [exc |-> "none",
          self |-> [kind |-> "checker",
                    logger |-> args["logger"],
                    requirements_path |->
                        IF "requirements_path" \in DOMAIN args
                        THEN args["requirements_path"] ELSE "None"],
          log |-> <<<<"info", "DependencyChecker initialized.">>>>]

\* subprocess.run(command, check=True) of an installation on machine h whose
\* program ends with rc: the exception raised, if any.  sys.executable is
\* always there; any other program must be on PATH.
RunInstaller(command, h, rc) ==
    IF command[1] # "python" /\ command[1] \notin h.which THEN "FileNotFoundError"
    ELSE IF rc = "nonzero" THEN "CalledProcessError"
    ELSE "none"

\* One branch of _install_ffmpeg: run the package manager, log the success.
ViaManager(command, name, h, rc) ==
    LET exc == RunInstaller(command, h, rc)
    IN  [exc |-> exc, how |-> command,
         log |-> IF exc = "none"
                 THEN <<<<"info", "ffmpeg has been installed successfully via", name>>>>
                 ELSE <<>>,
         out |-> <<>>]

\* No package manager: a warning, and on Windows a printed line as well.
ByHand(text, printed) ==
    [exc |-> "none", how |-> <<>>, log |-> <<<<"warning", text>>>>,
     out |-> IF printed THEN <<text>> ELSE <<>>]

\* _install_ffmpeg(self)
InstallFfmpeg(h, rc) ==
    LET os_system == h.os
        r == IF os_system = "Linux"
             THEN IF "apt" \in h.which
                  THEN ViaManager(<<"sudo", "apt", "install", "-y", "ffmpeg">>, "apt", h, rc)
                  ELSE IF "yum" \in h.which
                  THEN ViaManager(<<"sudo", "yum", "install", "-y", "ffmpeg">>, "yum", h, rc)
                  ELSE IF "pacman" \in h.which
                  THEN ViaManager(<<"sudo", "pacman", "-S", "--noconfirm", "ffmpeg">>,
                                  "pacman", h, rc)
                  ELSE ByHand("No compatible package manager found.", FALSE)
             ELSE IF os_system = "Darwin"
             THEN IF "brew" \in h.which
                  THEN ViaManager(<<"brew", "install", "ffmpeg">>, "Homebrew", h, rc)
                  ELSE ByHand("Homebrew not found.", FALSE)
             ELSE IF os_system = "Windows"
             THEN IF "choco" \in h.which
                  THEN ViaManager(<<"choco", "install", "-y", "ffmpeg">>, "Chocolatey", h, rc)
                  ELSE ByHand("Chocolatey not found.", TRUE)
             ELSE [exc |-> "none", how |-> <<>>, log |-> <<>>, out |-> <<>>]
    IN  [exc |-> r.exc, how |-> r.how, out |-> r.out,
         log |-> <<<<"info", "Attempting to install ffmpeg...">>>> \o r.log]

\* except subprocess.CalledProcessError   (install_dependency's only handler)
InstallCatches(exc) == IsSubclass(exc, "CalledProcessError")

\* install_dependency(self, dependency_name): what leaves the function, what
\* is logged and printed, and the installation as carried out.
install_dependency(dependency_name, h, rc) ==
    LET t == IF dependency_name = "yt-dlp"
             THEN LET command == <<"python", "-m", "pip", "install", "yt-dlp">>
                      exc == RunInstaller(command, h, rc)
                  IN  [exc |-> exc, how |-> command, out |-> <<>>,
                       log |-> IF exc = "none"
                               THEN <<<<"info", "yt-dlp has been installed successfully.">>>>
                               ELSE <<>>]
             ELSE IF dependency_name = "ffmpeg"
             THEN InstallFfmpeg(h, rc)
             ELSE [exc |-> "none", how |-> <<>>, out |-> <<>>, log |-> <<>>]
        caught == t.exc # "none" /\ InstallCatches(t.exc)
    IN  [raised |-> IF t.exc # "none" /\ ~caught THEN t.exc ELSE "none",
         out |-> t.out,
         log |-> <<<<"info", "Attempting to install", dependency_name>>>> \o t.log \o
                 (IF caught THEN <<<<"error", "Failed to install", dependency_name>>>>
                  ELSE <<>>),
         op |-> [op |-> "install", name |-> dependency_name, command |-> t.how,
                 exc |-> t.exc]]

\* _check_yt_dlp(self) and _check_ffmpeg(self): the exception of the check,
\* if any.
CheckOutcome(dependency_name, h) ==
    IF dependency_name = "yt-dlp"
    THEN IF h.yt_dlp THEN "none" ELSE "ImportError"
    ELSE IF h.ffmpeg = "zero" THEN "none"
    ELSE IF h.ffmpeg = "nonzero" THEN "CalledProcessError"
    ELSE "FileNotFoundError"

\* except ImportError / except (subprocess.CalledProcessError, FileNotFoundError)
CheckCatches(dependency_name, exc) ==
    IF dependency_name = "yt-dlp" THEN IsSubclass(exc, "ImportError")
    ELSE IsSubclass(exc, "CalledProcessError") \/ IsSubclass(exc, "FileNotFoundError")

\* _check_dependency(self, dependency_name): the check and, in its except
\* clause, the installation.
check_dependency(dependency_name, h, rc) ==
    LET exc == CheckOutcome(dependency_name, h)
        check == [op |-> "check", name |-> dependency_name, command |-> <<>>,
                  exc |-> exc]
    IN  IF exc = "none"
        THEN [raised |-> "none", out |-> <<>>, ops |-> <<check>>,
              log |-> <<<<"info", dependency_name, "is already installed.">>>>]
        ELSE IF ~CheckCatches(dependency_name, exc)
        THEN [raised |-> exc, out |-> <<>>, ops |-> <<check>>, log |-> <<>>]
        ELSE LET i == install_dependency(dependency_name, h, rc)
             IN  [raised |-> i.raised, out |-> i.out, ops |-> <<check, i.op>>,
                  log |-> <<<<"warning", dependency_name, "is not installed.">>>> \o i.log]

\* _install_requirements(self)
install_requirements(self, h, rc) ==
    IF ~h.requirements
    THEN [raised |-> "none", ops |-> <<>>,
          log |-> <<<<"error", "Requirements file not found.">>>>]
    ELSE LET command == <<"python", "-m", "pip", "install", "-r", self.requirements_path>>
             exc == RunInstaller(command, h, rc)
             caught == exc # "none" /\ IsSubclass(exc, "CalledProcessError")
         IN  [raised |-> IF exc # "none" /\ ~caught THEN exc ELSE "none",
              ops |-> <<[op |-> "requirements", name |-> self.requirements_path,
                         command |-> command, exc |-> exc]>>,
              log |-> <<<<"info", "Attempting to install packages from">>>> \o
                      (IF exc = "none"
                       THEN <<<<"info", "Packages have been installed successfully.">>>>
                       ELSE IF caught
                       THEN <<<<"error", "Failed to install packages from">>>>
                       ELSE <<>>)]

\* Install.py has just been started, or a program is about to make a
\* DependencyChecker of its own; the downloader is not in use.
InstallInit ==
    /\ pc = "idle"
    /\ request = NoRequest
    /\ ydl_opts = NoOpts
    /\ dirs = {}
    /\ fs = {}
    /\ log = <<>>
    /\ total = 0
    /\ items = <<>>
    /\ hookCalls = <<>>
    /\ ffmpegCalls = <<>>
    /\ removed = {}
    /\ created = {}
    /\ toolCalls = 0
    /\ urlList = <<>>
    /\ running = {}
    /\ outcome = "none"
    /\ result = "none"
    /\ ipc = "start"
    /\ caller = "none"
    /\ host \in Hosts
    /\ checker = NoChecker
    /\ stdout = <<>>
    /\ ilog = <<>>
    /\ ops = <<>>
    /\ exitStatus = "none"

\* check_dependencies moves on to position next, unless the exception raised
\* leaves it: the process of Install.py then dies with it (status 1), a
\* direct caller sees it raised.  Back in main, the success line is printed.
CheckGoesOn(raised, next, out) ==
    IF raised # "none"
    THEN /\ ipc' = IF caller = "main" THEN "exited" ELSE "raised"
         /\ exitStatus' = IF caller = "main" THEN "1" ELSE exitStatus
         /\ stdout' = stdout \o out
    ELSE IF next = "returned" /\ caller = "main"
    THEN /\ ipc' = "exited"
         /\ exitStatus' = "0"
         /\ stdout' = stdout \o out \o
                      <<"All dependencies have been successfully installed.">>
    ELSE /\ ipc' = next
         /\ exitStatus' = exitStatus
         /\ stdout' = stdout \o out

\* The keyword arguments of the call in install_dependencies().
InstallArgs == [a \in {"requirements_path"} |-> "./requirements.txt"]

\* main() of Install.py up to the call of check_dependencies().
main ==
    /\ ipc = "start"
    /\ caller' = "main"
    /\ LET p == check_permissions(host)
       IN  IF ~p.ok
           THEN /\ stdout' = p.out
                /\ exitStatus' = "1"
                /\ ipc' = "exited"
                /\ UNCHANGED <<checker, ilog>>
           ELSE LET c == DependencyCheckerInit(InstallArgs)
                IN  /\ stdout' = <<"Starting dependency check and installation...">>
                    /\ checker' = c.self
                    /\ ilog' = c.log
                    /\ IF c.exc # "none"
                       THEN ipc' = "exited" /\ exitStatus' = "1"
                       ELSE ipc' = "check_yt_dlp" /\ exitStatus' = exitStatus
    /\ UNCHANGED <<host, ops>>
    /\ UNCHANGED dvars

\* A program makes its own checker: DependencyChecker(logger, requirements_path).
NewDependencyChecker(requirements_path) ==
    /\ ipc = "start"
    /\ caller' = "direct"
    /\ LET c == DependencyCheckerInit(
                    [a \in {"logger", "requirements_path"} |->
                        IF a = "logger" THEN "logger" ELSE requirements_path])
       IN  /\ checker' = c.self
           /\ ilog' = c.log
    /\ ipc' = "check_yt_dlp"
    /\ UNCHANGED <<host, stdout, ops, exitStatus>>
    /\ UNCHANGED dvars

\* check_dependencies: self._check_dependency('yt-dlp')
CheckYtDlp(rc) ==
    /\ ipc = "check_yt_dlp"
    /\ LET r == check_dependency("yt-dlp", host, rc)
       IN  /\ ops' = ops \o r.ops
           /\ ilog' = ilog \o r.log
           /\ CheckGoesOn(r.raised, "check_ffmpeg", r.out)
    /\ UNCHANGED <<caller, host, checker>>
    /\ UNCHANGED dvars

\* check_dependencies: self._check_dependency('ffmpeg')
CheckFfmpeg(rc) ==
    /\ ipc = "check_ffmpeg"
    /\ LET r == check_dependency("ffmpeg", host, rc)
       IN  /\ ops' = ops \o r.ops
           /\ ilog' = ilog \o r.log
           /\ CheckGoesOn(r.raised, "requirements", r.out)
    /\ UNCHANGED <<caller, host, checker>>
    /\ UNCHANGED dvars

\* check_dependencies: if self.requirements_path: self._install_requirements()
RequirementsStep(rc) ==
    /\ ipc = "requirements"
    /\ IF checker.requirements_path # "None"
       THEN LET r == install_requirements(checker, host, rc)
            IN  /\ ops' = ops \o r.ops
                /\ ilog' = ilog \o r.log
                /\ CheckGoesOn(r.raised, "returned", <<>>)
       ELSE /\ UNCHANGED <<ops, ilog>>
            /\ CheckGoesOn("none", "returned", <<>>)
    /\ UNCHANGED <<caller, host, checker>>
    /\ UNCHANGED dvars

InstallNext ==
    \/ main
    \/ \E requirements_path \in {"None", "./requirements.txt"} :
           NewDependencyChecker(requirements_path)
    \/ \E rc \in InstallOutcomes : CheckYtDlp(rc)
    \/ \E rc \in InstallOutcomes : CheckFfmpeg(rc)
    \/ \E rc \in InstallOutcomes : RequirementsStep(rc)

InstallSpec == InstallInit /\ [][InstallNext]_vars

----------------------------------------------------------------------------
(* Vocabulary of the properties *)

HookCallIds == 1..Len(hookCalls)
Finished(i) == hookCalls[i].status = "finished"
Requested == request.kind = "request"

\* The items whose "finished" event has been handed to the hook: the hook has
\* returned, or it is waiting for the transcoder.
ReportedFinished ==
    {hookCalls[i].item : i \in {j \in HookCallIds : Finished(j)}}
        \cup {p.item : p \in running}
OptionsBuilt == ydl_opts.kind = "opts"

\* The index of the last tok of s, or 0.
RECURSIVE LastIndex(_, _)
LastIndex(s, tok) ==
    IF s = <<>> THEN 0
    ELSE IF s[Len(s)] = tok THEN Len(s)
    ELSE LastIndex(SubSeq(s, 1, Len(s) - 1), tok)

\* A file name with its extension replaced by the audio container's: the
\* extension is what follows the last "." of the last path component.
AudioName(f) ==
    LET d == LastIndex(f, ".")
        sl == LastIndex(f, "/")
    IN  (IF d > sl + 1 THEN SubSeq(f, 1, d - 1) ELSE f) \o <<".", "mp3">>

\* The argument list the transcoder is to get for file f.
ExpectedCommand(f) ==
    << <<"ffmpeg">>, <<"-i">>, f, <<"-vn">>, <<"-ar">>, <<"44100">>, <<"-ac">>,
       <<"2">>, <<"-b:a">>, <<"320k">>, <<"-f">>, <<"mp3">>, AudioName(f) >>

Logged(level, text, arg) ==
    \E j \in 1..Len(log) : log[j] = Entry(level, text, arg)

----------------------------------------------------------------------------
(* Properties *)

\* C1: the progress hook never lets an exception escape: every call of it
\* returns normally, however the transcoding step fails.
C1_HookNeverRaises ==
    \A i \in HookCallIds : hookCalls[i].raised = "none"

\* C2: a fetch always returns normally: an exception raised while creating
\* the directory or by the download tool is caught and logged as an error,
\* the download tool is not called a second time, and the caller gets the same
\* plain return whether the batch failed or not.
C2_FetchReturnsNormally ==
    /\ result # "raised"
    /\ toolCalls <= 1
    /\ pc = "done" => result = "returned"
    /\ (pc = "done" /\ outcome # "returned") =>
           /\ log[Len(log)] =
                  Entry("error", "Error downloading playlist", request.url)
           /\ toolCalls = (IF outcome = "none" THEN 0 ELSE 1)

C2_Witness ==
    /\ pc = "done"
    /\ outcome = "raised_batch"
    /\ result = "returned"
    /\ items # <<>>

\* C3: with audioOnly=false the transcoder is never invoked and no produced
\* file is deleted, whatever events the tool delivers.
C3_NoTranscodeWithoutAudioOnly ==
    (Requested /\ ~request.keep_audio_only) =>
        /\ ffmpegCalls = <<>>
        /\ removed = {}
        /\ created = {}
        /\ \A i \in HookCallIds : Finished(i) => hookCalls[i].filename \in fs

C3_Witness ==
    /\ Requested
    /\ ~request.keep_audio_only
    /\ \E i \in HookCallIds : Finished(i)
    /\ \E i \in HookCallIds : ~Finished(i)

\* C4: with audioOnly=true every item that reports "finished" causes exactly
\* one invocation of the transcoder, with the argument list fixed by the
\* item's file name: -i filename -vn -ar 44100 -ac 2 -b:a 320k -f mp3 and the
\* file name with its extension replaced by mp3.
C4_OneDeterministicInvocation ==
    (Requested /\ request.keep_audio_only) =>
        /\ \A i \in HookCallIds :
               Finished(i) => hookCalls[i].cmds = <<ExpectedCommand(hookCalls[i].filename)>>
        /\ \A p \in running :
               p.command = ExpectedCommand(items[p.item].filename)
        /\ \A i, j \in HookCallIds :
               (Finished(i) /\ Finished(j) /\ hookCalls[i].item = hookCalls[j].item)
                   => i = j
        /\ Len(ffmpegCalls) = Cardinality(ReportedFinished)
        /\ \A c \in 1..Len(ffmpegCalls) :
               \E k \in ReportedFinished :
                   ffmpegCalls[c] = ExpectedCommand(items[k].filename)

C4_Witness ==
    /\ Requested
    /\ request.keep_audio_only
    /\ \E i \in HookCallIds :
           /\ Finished(i)
           /\ hookCalls[i].item = 2
           /\ hookCalls[i].filename =
                  <<".", "/", "out", "/", "PL", "/", "2", " - ", "Title", ".",
                    "v2", ".", "webm">>

\* C5: after a successful transcode of a finished item the original file no
\* longer exists and the audio-container file exists, for every file name.
C5_SuccessfulTranscode ==
    \A i \in HookCallIds :
        hookCalls[i].rc = "zero" =>
            /\ hookCalls[i].filename \notin fs
            /\ AudioName(hookCalls[i].filename) \in fs

\* C6: after a transcode that exits non-zero the original file still exists,
\* no audio-container file has been created for the item and an error is
\* logged; a file is deleted only after the transcoder has exited with zero
\* on it.
C6_FailedTranscode ==
    /\ \A i \in HookCallIds :
           hookCalls[i].rc = "nonzero" =>
               /\ hookCalls[i].filename \in fs
               /\ AudioName(hookCalls[i].filename) \notin created
               /\ Logged("error", "Error converting to MP3", hookCalls[i].filename)
    /\ \A f \in removed :
           \E i \in HookCallIds : hookCalls[i].filename = f /\ hookCalls[i].rc = "zero"

C6_Witness ==
    /\ \E i \in HookCallIds : hookCalls[i].rc = "nonzero"
    /\ removed # {}

\* C7: in a collection download a failing item (its download fails, or its
\* transcode fails) never ends the batch: the tool goes on, and when it
\* returns every item of the collection has been taken up and every item that
\* did not fail itself has had its "finished" event processed by the hook.
C7_FailureDoesNotStopBatch ==
    /\ outcome # "raised_item"
    /\ (\E k \in 1..Len(items) : items[k].status = "error") =>
           (pc = "download" \/ outcome \in {"returned", "raised_batch"})
    /\ outcome = "returned" =>
           /\ Len(items) = total
           /\ \A k \in 1..total :
                  \/ items[k].status = "error"
                  \/ \E i \in HookCallIds : Finished(i) /\ hookCalls[i].item = k

C7_Witness ==
    /\ outcome = "returned"
    /\ total >= 2
    /\ items[1].status = "error"
    /\ \E i \in HookCallIds :
           Finished(i) /\ hookCalls[i].item = 1 /\ hookCalls[i].raised # "none"
    /\ \E i \in HookCallIds :
           Finished(i) /\ hookCalls[i].item = 2 /\ hookCalls[i].raised = "none"

\* C8: download_playlist downloads the whole playlist: for a collection
\* request the options do not restrict the download to a single item, and for
\* a single-video request they do.
C8_NoPlaylistMatchesRequest ==
    OptionsBuilt => (ydl_opts.noplaylist <=> ~request.isPlaylist)

\* C9: the output template holds the collection name and the per-item index
\* when and only when the request is a collection; a single-item request
\* writes its file directly under the destination path.
C9_TemplateFollowsIsCollection ==
    OptionsBuilt =>
        /\ ("%(playlist_title)s" \in {ydl_opts.outtmpl[j] : j \in 1..Len(ydl_opts.outtmpl)})
               <=> request.isPlaylist
        /\ ("%(playlist_index)s" \in {ydl_opts.outtmpl[j] : j \in 1..Len(ydl_opts.outtmpl)})
               <=> request.isPlaylist
        /\ ~request.isPlaylist =>
               \A k \in 1..Len(items) :
                   LastIndex(items[k].filename, "/") = Len(request.path) + 1

\* C10: the format selector is "bestaudio/best" with audioOnly and the
\* best-video-plus-audio selector without, and both fault-tolerance flags are
\* on whatever audioOnly and isCollection are.
C10_FormatAndFaultTolerance ==
    OptionsBuilt =>
        /\ ydl_opts.format =
               (IF request.keep_audio_only THEN "bestaudio/best"
                ELSE "bestvideo+bestaudio/best")
        /\ ydl_opts.skip_unavailable_fragments
        /\ ydl_opts.ignoreerrors

C10_Witness ==
    /\ OptionsBuilt
    /\ request.keep_audio_only
    /\ ~request.isPlaylist
    /\ pc = "done"

----------------------------------------------------------------------------
(* The per-item state machine *)

\* The finished calls of the hook for item k.
FinishedCalls(k) == {i \in HookCallIds : Finished(i) /\ hookCalls[i].item = k}

\* Where item k is in its life.  An item whose download fails never reports
\* "finished": it stays pending.  Once the hook has been through the
\* transcoder, the exit of the transcoder says whether the item is done or its
\* transcoding has failed; without a transcode the item is done when the hook
\* has returned.
Phase(k) ==
    IF \E p \in running : p.item = k THEN "transcoding"
    ELSE IF FinishedCalls(k) = {} THEN "pending"
    ELSE LET i == CHOOSE j \in FinishedCalls(k) : TRUE
         IN  IF hookCalls[i].rc \in {"none", "zero"} THEN "done"
             ELSE "transcoding-failed"

\* The transitions of an item; "finished" is passed within the step that
\* hands the event to the hook.
AllowedMove(a, b, audioOnly) ==
    \/ a = b
    \/ a = "pending" /\ b = "transcoding" /\ audioOnly
    \/ a = "pending" /\ b = "done" /\ ~audioOnly
    \/ a = "transcoding" /\ b \in {"done", "transcoding-failed"}

\* C11: an item moves only pending -> finished -> (with audioOnly)
\* transcoding -> done or transcoding-failed; done and transcoding-failed are
\* terminal, the transcoder is never run a second time for an item, and
\* without audioOnly a finished item is done at once.
C11_ItemStateMachine ==
    /\ [](\A k \in 1..Len(items) :
              /\ Cardinality(FinishedCalls(k)) <= 1
              /\ \A i \in FinishedCalls(k) : Len(hookCalls[i].cmds) <= 1
              /\ Cardinality({c \in 1..Len(ffmpegCalls) :
                                  ffmpegCalls[c][3] = items[k].filename}) <= 1
              /\ (Requested /\ ~request.keep_audio_only) =>
                     Phase(k) \in {"pending", "done"})
    /\ [][\A k \in 1..Len(items) :
              AllowedMove(Phase(k), Phase(k)', request.keep_audio_only)]_vars

C11_Witness ==
    /\ Len(items) = 2
    /\ Phase(1) = "transcoding-failed"
    /\ Phase(2) = "done"
    /\ pc = "done"

\* C13: the hook is a no-op for an event whose status is not "finished": it
\* logs nothing, starts no transcoder and leaves the files alone, with and
\* without audioOnly.
C13_NonFinishedIsNoOp ==
    [][(/\ Len(hookCalls') = Len(hookCalls) + 1
        /\ hookCalls'[Len(hookCalls')].status # "finished")
       => /\ log' = log
          /\ fs' = fs
          /\ ffmpegCalls' = ffmpegCalls
          /\ running' = running
          /\ removed' = removed
          /\ created' = created
          /\ hookCalls'[Len(hookCalls')].cmds = <<>>
          /\ hookCalls'[Len(hookCalls')].raised = "none"]_vars

C13_Witness ==
    /\ Requested
    /\ request.keep_audio_only
    /\ \E i \in HookCallIds : ~Finished(i)
    /\ \E i \in HookCallIds : Finished(i) /\ hookCalls[i].rc = "zero"

\* C14: the destination directory exists before the download tool is
\* invoked, creating it is idempotent (an existing directory is no error and
\* is left as it is), and the tool is invoked at most once per fetch, with a
\* list holding exactly the URL of the request.
C14_DirectoryThenOneCall ==
    /\ [](/\ toolCalls <= 1
          /\ toolCalls = 0 => urlList = <<>>
          /\ toolCalls = 1 => /\ request.path \in dirs
                              /\ urlList = <<request.url>>)
    /\ [][(pc = "idle" /\ pc' # "idle") =>
              /\ request'.path \in dirs => (dirs' = dirs /\ pc' = "download")
              /\ request'.path \notin dirs' => toolCalls' = 0
              /\ dirs' \subseteq dirs \cup {request'.path}]_vars

C14_Witness ==
    /\ toolCalls = 1
    /\ request.path \in dirs
    /\ urlList = <<request.url>>
    /\ pc = "done"
    /\ result = "returned"

\* C15: processing is strictly serial: at most one transcoder runs at any
\* time, the hook for an item has returned before anything of the next item
\* is delivered, and the fetch does not return while a transcoder runs.
C15_StrictlySerial ==
    /\ Cardinality(running) <= 1
    /\ \A p \in running :
           /\ pc = "download"
           /\ result = "none"
           /\ outcome = "running"
           /\ p.item = Len(items)
           /\ items[p.item].status = "transcoding"
           /\ FinishedCalls(p.item) = {}
    /\ \A i, j \in HookCallIds : i < j => hookCalls[i].item <= hookCalls[j].item

C15_Witness ==
    /\ running # {}
    /\ Len(items) = 2
    /\ \E i \in HookCallIds : Finished(i) /\ hookCalls[i].item = 1 /\ hookCalls[i].rc # "none"

----------------------------------------------------------------------------
(* The installer *)

IsCheck(o) == o.op = "check"
Checks == SelectSeq(ops, IsCheck)
CheckOrder == <<"yt-dlp", "ffmpeg">>
SuccessLine == "All dependencies have been successfully installed."

\* C12: main of Install.py: with the permissions granted, both dependencies
\* are checked (and installed if missing) and only then the success line is
\* printed; without them nothing is checked or installed and the process
\* exits with status 1.
C12_MainInstallsThenReports ==
    (caller = "main" /\ ipc = "exited") =>
        IF check_permissions(host).ok
        THEN /\ Len(Checks) = Len(CheckOrder)
             /\ stdout # <<>>
             /\ stdout[Len(stdout)] = SuccessLine
        ELSE /\ ops = <<>>
             /\ ilog = <<>>
             /\ checker = NoChecker
             /\ SuccessLine \notin {stdout[i] : i \in 1..Len(stdout)}
             /\ exitStatus = "1"

\* C16: check_dependencies checks yt-dlp, then ffmpeg, then installs the
\* requirements if a path was given; an installation is attempted exactly
\* for a dependency whose check failed; a failed installation is absorbed,
\* so the later steps run and check_dependencies returns normally.
C16_ChecksInOrderAndAbsorbed ==
    /\ ipc # "raised"
    /\ Len(Checks) <= Len(CheckOrder)
    /\ \A i \in 1..Len(Checks) : Checks[i].name = CheckOrder[i]
    /\ \A i \in 1..Len(ops) :
           /\ ops[i].op = "install" =>
                  /\ i > 1
                  /\ ops[i-1].op = "check"
                  /\ ops[i-1].name = ops[i].name
                  /\ ops[i-1].exc # "none"
           /\ (ops[i].op = "check" /\ ops[i].exc # "none") =>
                  /\ i < Len(ops)
                  /\ ops[i+1].op = "install"
                  /\ ops[i+1].name = ops[i].name
           /\ ops[i].op = "requirements" =>
                  /\ i = Len(ops)
                  /\ Len(Checks) = Len(CheckOrder)
                  /\ checker.requirements_path # "None"
    /\ ipc = "returned" =>
           /\ Len(Checks) = Len(CheckOrder)
           /\ (checker.requirements_path # "None" /\ host.requirements) =>
                  ops[Len(ops)].op = "requirements"

====
